---- MODULE Spec2Model ----
(***************************************************************************)
(* Model of the asset grouping service (src/src/services/grouping.py):    *)
(* the GroupingService store, its rule evaluator and the propagation of    *)
(* group assignments on asset and rule mutations.                          *)
(*                                                                         *)
(* Encoding of Python values                                               *)
(*   str            a sequence of one-character strings, <<"a","b">>       *)
(*                  (group names, which are only compared and tested for   *)
(*                  emptiness, are TLA+ strings)                           *)
(*   Optional[T]    the empty set for None, the singleton {v} for v        *)
(*   dict           a sequence in insertion order; the uuid key of the     *)
(*                  n-th inserted record is n                              *)
(*   datetime       a natural number read from the clock                   *)
(*   an exception   the outcome "raise" of the operation                   *)
(***************************************************************************)
EXTENDS Naturals, Sequences, FiniteSets

VARIABLES assets, rules, last

vars == <<assets, rules, last>>

-----------------------------------------------------------------------------
(* Bounds of the model *)

MaxAssets == 2
MaxRules == 2
MaxClock == 2
MaxStrLen == 2
MaxRuleList == 3

-----------------------------------------------------------------------------
(* Optional[T] *)

None == {}
Some(v) == {v}

(* Python truthiness of an Optional[str] group name: None and "" are falsy *)
Truthy(g) == g # None /\ g # Some("")

-----------------------------------------------------------------------------
(* Strings *)

Chars == {"a", "b"}

RECURSIVE StrsOfLen(_)
StrsOfLen(n) ==
    IF n = 0 THEN {<<>>}
    ELSE {Append(s, c) : s \in StrsOfLen(n - 1), c \in Chars}

Strs == UNION {StrsOfLen(n) : n \in 0..MaxStrLen}

(* Python's  sub in s  for two str: sub occurs in s as a contiguous slice *)
IsSubstring(sub, s) ==
    \E i \in 0..Len(s) :
        /\ i + Len(sub) <= Len(s)
        /\ \A j \in 1..Len(sub) : s[i + j] = sub[j]

-----------------------------------------------------------------------------
(* Rule evaluator *)

EQUALS == "equals"
CONTAINS == "contains"
EXISTS == "exists"
Operator == {EQUALS, CONTAINS, EXISTS}

(* Outcome of _evaluate_condition: TRUE, FALSE, or the TypeError that       *)
(* None in <str>  raises, written "raise".  Encoded as a string so that the *)
(* three outcomes are comparable.                                           *)
CondTrue == "True"
CondFalse == "False"
CondRaise == "raise"
FromBool(b) == IF b THEN CondTrue ELSE CondFalse

(* value in s  where value is Optional[str] *)
InStr(value, s) ==
    IF value = None THEN CondRaise
    ELSE FromBool(\E v \in value : IsSubstring(v, s))

(* _evaluate_condition with the tag/equals row comparing the key alone *)
_evaluate_condition_key_only(asset, condition) ==
    IF condition.field = "type" THEN
        IF condition.operator = EQUALS
            THEN FromBool(Some(asset.type) = condition.value)
        ELSE IF condition.operator = CONTAINS
            THEN InStr(condition.value, asset.type)
        ELSE CondFalse
    ELSE IF condition.field = "name" THEN
        IF condition.operator = EQUALS
            THEN FromBool(Some(asset.name) = condition.value)
        ELSE IF condition.operator = CONTAINS
            THEN InStr(condition.value, asset.name)
        ELSE CondFalse
    ELSE IF condition.field = "tag" THEN
        IF condition.operator \in {EXISTS, EQUALS}
            THEN FromBool(\E i \in 1..Len(asset.tags) :
                            Some(asset.tags[i].key) = condition.tag_key)
        ELSE CondFalse
    ELSE CondFalse

_evaluate_condition(asset, condition) ==
    IF condition.field = "type" THEN
        IF condition.operator = EQUALS
            THEN FromBool(Some(asset.type) = condition.value)
        ELSE IF condition.operator = CONTAINS
            THEN InStr(condition.value, asset.type)
        ELSE CondFalse
    ELSE IF condition.field = "name" THEN
        IF condition.operator = EQUALS
            THEN FromBool(Some(asset.name) = condition.value)
        ELSE IF condition.operator = CONTAINS
            THEN InStr(condition.value, asset.name)
        ELSE CondFalse
    ELSE IF condition.field = "tag" THEN
        IF condition.operator = EXISTS
            THEN FromBool(\E i \in 1..Len(asset.tags) :
                            Some(asset.tags[i].key) = condition.tag_key)
        ELSE IF condition.operator = EQUALS
            THEN FromBool(\E i \in 1..Len(asset.tags) :
                            /\ Some(asset.tags[i].key) = condition.tag_key
                            /\ Some(asset.tags[i].value) = condition.tag_value)
        ELSE CondFalse
    ELSE CondFalse

(* all(_evaluate_condition(asset, c) for c in conditions), from position i: *)
(* the generator is consumed in order and stops at the first False; an      *)
(* exception raised before that propagates.                                 *)
RECURSIVE AllFrom(_, _, _)
AllFrom(asset, conditions, i) ==
    IF i > Len(conditions) THEN CondTrue
    ELSE LET r == _evaluate_condition(asset, conditions[i])
         IN  IF r = CondTrue THEN AllFrom(asset, conditions, i + 1) ELSE r

RuleMatches(asset, rule) == AllFrom(asset, rule.conditions, 1)

(* _evaluate_rules going on to the end of the mapping: the group of the     *)
(* last matching rule, not of the first                                     *)
RECURSIVE EvalFrom_last_match(_, _, _)
EvalFrom_last_match(asset, rs, i) ==
    IF i > Len(rs) THEN [raised |-> FALSE, group |-> None]
    ELSE LET m == RuleMatches(asset, rs[i])
             rest == EvalFrom_last_match(asset, rs, i + 1)
         IN  IF m = CondRaise THEN [raised |-> TRUE, group |-> None]
             ELSE IF m = CondTrue /\ ~rest.raised /\ rest.group = None
                 THEN [raised |-> FALSE, group |-> Some(rs[i].group_name)]
             ELSE rest

(* Outcome of _evaluate_rules over the rule mapping rs in insertion order,  *)
(* from position i: [raised, group], group an Optional[str].                *)
RECURSIVE EvalFrom(_, _, _)
EvalFrom(asset, rs, i) ==
    IF i > Len(rs) THEN [raised |-> FALSE, group |-> None]
    ELSE LET m == RuleMatches(asset, rs[i])
         IN  IF m = CondRaise THEN [raised |-> TRUE, group |-> None]
             ELSE IF m = CondTrue
                 THEN [raised |-> FALSE, group |-> Some(rs[i].group_name)]
             ELSE EvalFrom(asset, rs, i + 1)

_evaluate_rules(asset, rs) == EvalFrom(asset, rs, 1)

-----------------------------------------------------------------------------
(* Inputs *)

Tag(k, v) == [key |-> k, value |-> v]

Names == {<<"a">>, <<"a", "b">>}
Types == {<<"a">>, <<"b">>}
TagLists == {<<>>, <<Tag(<<"a">>, <<"b">>)>>}
Regions == {"r1", "r2"}

(* An Asset payload as the caller sends it: the six required fields and the *)
(* optional group_name (id, created_at, updated_at are left at None)        *)
Payloads(names, types, taglists, regions) ==
    [name : names, type : types, tags : taglists,
     cloud_account : {[id |-> "123", name |-> "main"]},
     owner_id : {"user1"}, region : regions,
     group_name : {None, Some("manual")}]

AssetPayloads == Payloads(Names, Types, {<<>>}, {"r1"})

Condition(f, op, v, tk, tv) ==
    [field |-> f, operator |-> op, value |-> v, tag_key |-> tk, tag_value |-> tv]


(* The conditions the rules of the store are built from *)
TypeIsA == Condition("type", EQUALS, Some(<<"a">>), None, None)
NameHasB == Condition("name", CONTAINS, Some(<<"b">>), None, None)
NameHasNone == Condition("name", CONTAINS, None, None, None)

ConditionLists ==
    {<<>>, <<TypeIsA>>, <<TypeIsA, NameHasB>>, <<TypeIsA, NameHasNone>>}

GroupNames == {"", "g1", "g2"}

(* A GroupingRule payload as the caller sends it *)
RulePayloads ==
    [group_name : GroupNames, conditions : ConditionLists, description : {None}]

-----------------------------------------------------------------------------
(* The store *)

MaxOf(S) == CHOOSE x \in S : \A y \in S : y <= x

(* The latest instant stamped on a record of the two mappings *)
Latest ==
    MaxOf({0} \cup {assets[i].updated_at : i \in 1..Len(assets)}
              \cup {rules[i].updated_at : i \in 1..Len(rules)})

(* datetime.now(UTC): some instant not before any instant read earlier (the *)
(* clock is non-decreasing; an instant that was read and stamped nowhere    *)
(* bounds nothing the store holds)                                          *)
Now == Latest..MaxClock

Result(op, id, res) == [op |-> op, id |-> id, res |-> res]

Init ==
    /\ assets = <<>>
    /\ rules = <<>>
    /\ last = Result("init", 0, "ok")

(* The Asset built from a payload dumped with its group_name *)
NewAsset_keeping_group(asset, asset_id, now) ==
    [id |-> asset_id, name |-> asset.name, type |-> asset.type,
     tags |-> asset.tags, cloud_account |-> asset.cloud_account,
     owner_id |-> asset.owner_id, region |-> asset.region,
     group_name |-> asset.group_name, created_at |-> now, updated_at |-> now]

(* Asset(id=asset_id, created_at=now, updated_at=now, **asset_data), where  *)
(* asset_data leaves out the payload's group_name                           *)
NewAsset(asset, asset_id, now) ==
    [id |-> asset_id, name |-> asset.name, type |-> asset.type,
     tags |-> asset.tags, cloud_account |-> asset.cloud_account,
     owner_id |-> asset.owner_id, region |-> asset.region,
     group_name |-> None, created_at |-> now, updated_at |-> now]

create_asset(asset, now) ==
    /\ Len(assets) < MaxAssets
    /\ LET asset_id == Len(assets) + 1
           new_asset == NewAsset(asset, asset_id, now)
           ev == _evaluate_rules(new_asset, rules)
       IN  IF ev.raised
           THEN /\ last' = Result("create_asset", asset_id, "raise")
                /\ UNCHANGED <<assets, rules>>
           ELSE /\ assets' = Append(assets,
                       IF Truthy(ev.group)
                       THEN [new_asset EXCEPT !.group_name = ev.group]
                       ELSE new_asset)
                /\ last' = Result("create_asset", asset_id, "ok")
                /\ UNCHANGED rules

get_asset(asset_id) ==
    /\ last' = Result("get_asset", asset_id,
                      IF asset_id \in 1..Len(assets) THEN "ok" ELSE "none")
    /\ UNCHANGED <<assets, rules>>

(* The merge with created_at stamped anew instead of kept (line 97) *)
MergedAsset_restamped(current_asset, asset, now) ==
    [id |-> current_asset.id, name |-> asset.name, type |-> asset.type,
     tags |-> asset.tags, cloud_account |-> asset.cloud_account,
     owner_id |-> asset.owner_id, region |-> asset.region,
     group_name |-> current_asset.group_name,
     created_at |-> now, updated_at |-> now]

(* current_data.update(update_data) and the three assignments after it *)
MergedAsset(current_asset, asset, now) ==
    [id |-> current_asset.id, name |-> asset.name, type |-> asset.type,
     tags |-> asset.tags, cloud_account |-> asset.cloud_account,
     owner_id |-> asset.owner_id, region |-> asset.region,
     group_name |-> current_asset.group_name,
     created_at |-> current_asset.created_at, updated_at |-> now]

(* update_asset storing the payload under an id that is absent (an upsert) *)
update_asset_upsert(asset_id, asset, now) ==
    LET current_asset == IF asset_id \in 1..Len(assets)
                         THEN assets[asset_id]
                         ELSE NewAsset(asset, asset_id, now)
        updated_asset == MergedAsset(current_asset, asset, now)
        ev == _evaluate_rules(updated_asset, rules)
    IN  IF ev.raised
        THEN /\ last' = Result("update_asset", asset_id, "raise")
             /\ UNCHANGED <<assets, rules>>
        ELSE /\ assets' = [i \in 1..Len(assets) + (IF asset_id > Len(assets) THEN 1 ELSE 0)
                            |-> IF i = asset_id
                                THEN [updated_asset EXCEPT !.group_name = ev.group]
                                ELSE assets[i]]
             /\ last' = Result("update_asset", asset_id, "ok")
             /\ UNCHANGED rules

update_asset(asset_id, asset, now) ==
    IF asset_id \notin 1..Len(assets)
    THEN /\ last' = Result("update_asset", asset_id, "none")
         /\ UNCHANGED <<assets, rules>>
    ELSE LET updated_asset == MergedAsset(assets[asset_id], asset, now)
             ev == _evaluate_rules(updated_asset, rules)
         IN  IF ev.raised
             THEN /\ last' = Result("update_asset", asset_id, "raise")
                  /\ UNCHANGED <<assets, rules>>
             ELSE /\ assets' = [assets EXCEPT ![asset_id] =
                         [updated_asset EXCEPT !.group_name = ev.group]]
                  /\ last' = Result("update_asset", asset_id, "ok")
                  /\ UNCHANGED rules

(* The loop of _process_existing_assets without the test of line 270: every *)
(* asset is re-evaluated, grouped or not                                    *)
RECURSIVE ProcessFrom_regroup_all(_, _, _, _)
ProcessFrom_regroup_all(as, rs, i, at) ==
    IF i > Len(as) THEN [assets |-> as, raised |-> FALSE]
    ELSE LET ev == _evaluate_rules(as[i], rs)
         IN  IF ev.raised THEN [assets |-> as, raised |-> TRUE]
             ELSE IF Truthy(ev.group)
                 THEN ProcessFrom_regroup_all(
                        [as EXCEPT ![i].group_name = ev.group,
                                   ![i].updated_at = at[i]],
                        rs, i + 1, at)
             ELSE ProcessFrom_regroup_all(as, rs, i + 1, at)

(* The loop of _process_existing_assets with the stamp of line 275 outside  *)
(* the test of line 273: updated_at is refreshed on every asset evaluated   *)
RECURSIVE ProcessFrom_always_stamp(_, _, _, _)
ProcessFrom_always_stamp(as, rs, i, at) ==
    IF i > Len(as) THEN [assets |-> as, raised |-> FALSE]
    ELSE IF Truthy(as[i].group_name)
        THEN ProcessFrom_always_stamp(as, rs, i + 1, at)
    ELSE LET ev == _evaluate_rules(as[i], rs)
         IN  IF ev.raised THEN [assets |-> as, raised |-> TRUE]
             ELSE ProcessFrom_always_stamp(
                    [as EXCEPT ![i].group_name =
                                   IF Truthy(ev.group) THEN ev.group ELSE @,
                               ![i].updated_at = at[i]],
                    rs, i + 1, at)

(* The loop of _process_existing_assets from position i of the asset        *)
(* mapping as, under rules rs; at[i] is the instant read for asset i.       *)
(* [assets, raised]: the mapping as the loop leaves it, and whether it was  *)
(* left by an exception.                                                    *)
RECURSIVE ProcessFrom(_, _, _, _)
ProcessFrom(as, rs, i, at) ==
    IF i > Len(as) THEN [assets |-> as, raised |-> FALSE]
    ELSE IF Truthy(as[i].group_name) THEN ProcessFrom(as, rs, i + 1, at)
    ELSE LET ev == _evaluate_rules(as[i], rs)
         IN  IF ev.raised THEN [assets |-> as, raised |-> TRUE]
             ELSE IF Truthy(ev.group)
                 THEN ProcessFrom(
                        [as EXCEPT ![i].group_name = ev.group,
                                   ![i].updated_at = at[i]],
                        rs, i + 1, at)
             ELSE ProcessFrom(as, rs, i + 1, at)

_process_existing_assets(as, rs, at) == ProcessFrom(as, rs, 1, at)

(* The instants the loop may read, one per asset, none before now and none  *)
(* before the one read for the asset before                                 *)
Instants(now, latest) ==
    {at \in [1..Len(assets) -> now..latest] :
        \A i \in 1..Len(assets), j \in 1..Len(assets) : i <= j => at[i] <= at[j]}

NewRule(rule, rule_id, now) ==
    [id |-> rule_id, group_name |-> rule.group_name,
     conditions |-> rule.conditions, description |-> rule.description,
     created_at |-> now, updated_at |-> now]

create_rule(rule, now, at) ==
    /\ Len(rules) < MaxRules
    /\ LET rule_id == Len(rules) + 1
           new_rules == Append(rules, NewRule(rule, rule_id, now))
           pass == _process_existing_assets(assets, new_rules, at)
       IN  /\ rules' = new_rules
           /\ assets' = pass.assets
           /\ last' = Result("create_rule", rule_id,
                             IF pass.raised THEN "raise" ELSE "ok")

(* The call that builds updated_rule unpacks current_rule.model_dump(),      *)
(* which holds every field and so updated_at, and passes updated_at as a    *)
(* keyword too: Python raises TypeError (multiple values for a keyword      *)
(* argument) before a GroupingRule is built, whatever update_data holds.    *)
update_rule(rule_id, rule) ==
    IF rule_id \notin 1..Len(rules)
    THEN /\ last' = Result("update_rule", rule_id, "none")
         /\ UNCHANGED <<assets, rules>>
    ELSE /\ last' = Result("update_rule", rule_id, "raise")
         /\ UNCHANGED <<assets, rules>>

(* The operations whose body is  raise NotImplementedError: the outcome is *)
(* "not_implemented" whatever the argument and the store.                   *)
NotImplemented(op, id) ==
    /\ last' = Result(op, id, "not_implemented")
    /\ UNCHANGED <<assets, rules>>

list_assets == NotImplemented("list_assets", 0)

(* delete_asset removing the record under asset_id and answering normally *)
delete_asset_removing(asset_id) ==
    IF asset_id \in 1..Len(assets)
    THEN /\ assets' = [i \in 1..(Len(assets) - 1) |->
                          IF i < asset_id THEN assets[i] ELSE assets[i + 1]]
         /\ last' = Result("delete_asset", asset_id, "ok")
         /\ UNCHANGED rules
    ELSE /\ last' = Result("delete_asset", asset_id, "none")
         /\ UNCHANGED <<assets, rules>>

delete_asset(asset_id) == NotImplemented("delete_asset", asset_id)

get_rule(rule_id) == NotImplemented("get_rule", rule_id)

list_rules == NotImplemented("list_rules", 0)

delete_rule(rule_id) == NotImplemented("delete_rule", rule_id)

(* The five of them on every argument *)
Unimplemented ==
    \/ list_assets
    \/ \E asset_id \in 1..(Len(assets) + 1) : delete_asset(asset_id)
    \/ \E rule_id \in 1..(Len(rules) + 1) : get_rule(rule_id)
    \/ list_rules
    \/ \E rule_id \in 1..(Len(rules) + 1) : delete_rule(rule_id)

-----------------------------------------------------------------------------
(* Spec: the operations on assets and rules of every shape, all applied at  *)
(* one instant of the clock.                                                *)

Next ==
    \/ \E asset \in AssetPayloads : create_asset(asset, Latest)
    \/ \E asset_id \in 1..(Len(assets) + 1) : get_asset(asset_id)
    \/ \E asset_id \in 1..(Len(assets) + 1), asset \in AssetPayloads :
            update_asset(asset_id, asset, Latest)
    \/ \E rule \in RulePayloads, at \in Instants(Latest, Latest) :
            create_rule(rule, Latest, at)
    \/ \E rule_id \in 1..(Len(rules) + 1), rule \in RulePayloads :
            update_rule(rule_id, rule)
    \/ Unimplemented

Spec == Init /\ [][Next]_vars

-----------------------------------------------------------------------------
(* SpecClock: the same operations with the clock advancing between and      *)
(* within them, on assets that differ in type and rules over the type.      *)

ClockAssetPayloads == Payloads({<<"a">>}, Types, {<<>>}, {"r1"})

RulePayload(g, cs) == [group_name |-> g, conditions |-> cs, description |-> None]

ClockRulePayloads ==
    {RulePayload("g1", <<TypeIsA>>), RulePayload("g2", <<>>),
     RulePayload("g1", <<TypeIsA, NameHasNone>>)}

NextClock ==
    \/ \E asset \in ClockAssetPayloads, now \in Now : create_asset(asset, now)
    \/ \E asset_id \in 1..(Len(assets) + 1) : get_asset(asset_id)
    \/ \E asset_id \in 1..(Len(assets) + 1), asset \in ClockAssetPayloads,
          now \in Now :
            update_asset(asset_id, asset, now)
    \/ \E rule \in ClockRulePayloads, now \in Now :
          \E at \in Instants(now, MaxClock) :
            create_rule(rule, now, at)
    \/ \E rule_id \in 1..(Len(rules) + 1), rule \in ClockRulePayloads :
            update_rule(rule_id, rule)
    \/ Unimplemented

SpecClock == Init /\ [][NextClock]_vars

-----------------------------------------------------------------------------
(* SpecMove: the operations at one instant of the clock on assets that are  *)
(* created alike in the fields no condition reads and differ in them after  *)
(* an update: region, owner_id or cloud_account.                            *)

MovedPayloads ==
    ClockAssetPayloads
    \cup {[p EXCEPT !.region = "r2"] : p \in ClockAssetPayloads}
    \cup {[p EXCEPT !.owner_id = "user2"] : p \in ClockAssetPayloads}
    \cup {[p EXCEPT !.cloud_account = [id |-> "456", name |-> "other"]] :
            p \in ClockAssetPayloads}

MoveRulePayloads == ClockRulePayloads \cup {RulePayload("", <<>>)}

NextMove ==
    \/ \E asset \in ClockAssetPayloads : create_asset(asset, Latest)
    \/ \E asset_id \in 1..(Len(assets) + 1) : get_asset(asset_id)
    \/ \E asset_id \in 1..(Len(assets) + 1), asset \in MovedPayloads :
            update_asset(asset_id, asset, Latest)
    \/ \E rule \in MoveRulePayloads, at \in Instants(Latest, Latest) :
            create_rule(rule, Latest, at)
    \/ \E rule_id \in 1..(Len(rules) + 1), rule \in MoveRulePayloads :
            update_rule(rule_id, rule)
    \/ Unimplemented

SpecMove == Init /\ [][NextMove]_vars

-----------------------------------------------------------------------------
(* SpecCond: one call of _evaluate_condition on each asset and condition of *)
(* a bounded universe.  The pending call and its outcome are held in last.  *)

Call(op, asset, condition, res) ==
    [op |-> op, asset |-> asset, condition |-> condition, res |-> res]

CondTags == {Tag(k, v) : k \in StrsOfLen(1), v \in StrsOfLen(1)}

CondTagLists ==
    {<<>>} \cup {<<t>> : t \in CondTags}
           \cup {<<Tag(<<"a">>, <<"a">>), Tag(<<"b">>, <<"b">>)>>,
                 <<Tag(<<"b">>, <<"a">>), Tag(<<"a">>, <<"b">>)>>}

CondAssets ==
    {NewAsset(p, 1, 0) :
        p \in Payloads(Strs, {<<"a">>, <<"b", "a">>}, CondTagLists, {"r1"})}

OptStrs == {None} \cup {Some(v) : v \in Strs}

(* Every GroupingCondition over the universe; field is an open string, of   *)
(* which "region" stands for the ones the evaluator does not interpret      *)
Conditions ==
    [field : {"type", "name", "tag", "region"}, operator : Operator,
     value : OptStrs, tag_key : {None, Some(<<"a">>)},
     tag_value : {None, Some(<<"b">>)}]

InitCond ==
    /\ assets = <<>>
    /\ rules = <<>>
    /\ \E asset \in CondAssets, condition \in Conditions :
            last = Call("call", asset, condition, "none")

evaluate_condition ==
    /\ last.op = "call"
    /\ last' = [last EXCEPT !.op = "_evaluate_condition",
                            !.res = _evaluate_condition(last.asset, last.condition)]
    /\ UNCHANGED <<assets, rules>>

SpecCond == InitCond /\ [][evaluate_condition]_vars

-----------------------------------------------------------------------------
(* SpecRules: one call of _evaluate_rules on each asset and each rule       *)
(* mapping of up to MaxRuleList rules, as create_rule builds it while the   *)
(* asset mapping is empty.                                                  *)

RuleMappings ==
    UNION {{[i \in 1..n |-> NewRule(f[i], i, 0)] : f \in [1..n -> RulePayloads]} :
            n \in 0..MaxRuleList}

RuleAssets == {NewAsset(p, 1, 0) : p \in AssetPayloads}

InitRules ==
    /\ assets = <<>>
    /\ rules \in RuleMappings
    /\ \E asset \in RuleAssets :
            last = [op |-> "call", asset |-> asset, raised |-> FALSE,
                    group |-> None]

evaluate_rules ==
    /\ last.op = "call"
    /\ LET ev == _evaluate_rules(last.asset, rules)
       IN  last' = [last EXCEPT !.op = "_evaluate_rules",
                                !.raised = ev.raised, !.group = ev.group]
    /\ UNCHANGED <<assets, rules>>

SpecRules == InitRules /\ [][evaluate_rules]_vars

-----------------------------------------------------------------------------
(* SpecConc: one create_rule call and one create_asset / update_asset call  *)
(* made by two threads on the same GroupingService, which holds no lock.    *)
(* Each call runs in two parts, between which the other thread may run:     *)
(*   create_rule    the insertion of line 136, then the loop of             *)
(*                  _process_existing_assets, one asset per step            *)
(*   create_asset,  the evaluation of the rules on the local Asset object   *)
(*   update_asset   (lines 35-46, 87-103), then the store of line 48 / 105  *)
(* The store starts empty or with one ungrouped asset and no rule; every    *)
(* instant read is 0.  last holds the two calls and their positions:        *)
(*   rpc   "insert", "scan", "done" or "raise" (RuntimeError: the asset     *)
(*         dict changed size while the loop iterated over it)               *)
(*   ri    the position of the next asset of the loop                       *)
(*   rlen  the size of the dict when the loop's iterator was made, None     *)
(*         before                                                           *)
(*   apc   "evaluate", "store", "done" or "raise"                           *)
(*   obj   the local Asset object evaluated, None before                    *)

ConcRulePayloads == {RulePayload("g1", <<TypeIsA>>), RulePayload("g2", <<>>)}

ConcStores == {<<>>} \cup {<<NewAsset(p, 1, 0)>> : p \in ClockAssetPayloads}

ConcCalls(as) ==
    {[op |-> "create_asset", id |-> Len(as) + 1, asset |-> p] :
        p \in ClockAssetPayloads}
    \cup {[op |-> "update_asset", id |-> i, asset |-> p] :
            i \in 1..Len(as), p \in ClockAssetPayloads}

InitConc ==
    /\ assets \in ConcStores
    /\ rules = <<>>
    /\ \E rule \in ConcRulePayloads, call \in ConcCalls(assets) :
            last = [op |-> "concurrent", init |-> assets, rule |-> rule,
                    call |-> call, rpc |-> "insert", ri |-> 1, rlen |-> None,
                    apc |-> "evaluate", obj |-> None]

(* The local Asset object of create_asset / update_asset once the rules rs  *)
(* were evaluated on it: [raised, asset]                                    *)
EvaluatedAsset(call, as, rs, now) ==
    LET local == IF call.op = "create_asset"
                 THEN NewAsset(call.asset, call.id, now)
                 ELSE MergedAsset(as[call.id], call.asset, now)
        ev == _evaluate_rules(local, rs)
    IN  [raised |-> ev.raised,
         asset |-> IF call.op = "create_asset" /\ ~Truthy(ev.group)
                   THEN local
                   ELSE [local EXCEPT !.group_name = ev.group]]

(* self.assets[asset_id] = obj *)
StoredAsset(call, as, obj) ==
    IF call.id \in 1..Len(as) THEN [as EXCEPT ![call.id] = obj]
    ELSE Append(as, obj)

create_rule_insert ==
    /\ last.op = "concurrent"
    /\ last.rpc = "insert"
    /\ rules' = Append(rules, NewRule(last.rule, Len(rules) + 1, 0))
    /\ last' = [last EXCEPT !.rpc = "scan"]
    /\ UNCHANGED assets

(* One next() of the loop's iterator and the body of the loop on the asset  *)
(* it yields                                                                *)
create_rule_scan ==
    /\ last.op = "concurrent"
    /\ last.rpc = "scan"
    /\ LET rlen == IF last.rlen = None THEN Len(assets)
                   ELSE CHOOSE n \in last.rlen : TRUE
           i == last.ri
       IN  IF Len(assets) # rlen
           THEN /\ last' = [last EXCEPT !.rpc = "raise", !.rlen = Some(rlen)]
                /\ UNCHANGED <<assets, rules>>
           ELSE IF i > rlen
           THEN /\ last' = [last EXCEPT !.rpc = "done", !.rlen = Some(rlen)]
                /\ UNCHANGED <<assets, rules>>
           ELSE LET ev == _evaluate_rules(assets[i], rules)
                    hit == /\ ~Truthy(assets[i].group_name)
                           /\ ~ev.raised
                           /\ Truthy(ev.group)
                    err == ~Truthy(assets[i].group_name) /\ ev.raised
                IN  /\ assets' = IF hit
                                 THEN [assets EXCEPT ![i].group_name = ev.group,
                                                     ![i].updated_at = 0]
                                 ELSE assets
                    /\ last' = [last EXCEPT !.rpc = IF err THEN "raise" ELSE "scan",
                                            !.ri = i + 1, !.rlen = Some(rlen)]
                    /\ UNCHANGED rules

asset_evaluate ==
    /\ last.op = "concurrent"
    /\ last.apc = "evaluate"
    /\ LET e == EvaluatedAsset(last.call, assets, rules, 0)
       IN  last' = [last EXCEPT !.apc = IF e.raised THEN "raise" ELSE "store",
                               !.obj = Some(e.asset)]
    /\ UNCHANGED <<assets, rules>>

asset_store ==
    /\ last.op = "concurrent"
    /\ last.apc = "store"
    /\ assets' = StoredAsset(last.call, assets, CHOOSE o \in last.obj : TRUE)
    /\ last' = [last EXCEPT !.apc = "done"]
    /\ UNCHANGED rules

NextConc ==
    \/ create_rule_insert
    \/ create_rule_scan
    \/ asset_evaluate
    \/ asset_store

SpecConc == InitConc /\ [][NextConc]_vars

-----------------------------------------------------------------------------
(* What the claims speak of *)

MinOf(S) == CHOOSE x \in S : \A y \in S : x <= y

(* The rules of rs that match the asset: every condition of the rule holds *)
Matching(asset, rs) ==
    {i \in 1..Len(rs) :
        \A k \in 1..Len(rs[i].conditions) :
            _evaluate_condition(asset, rs[i].conditions[k]) = CondTrue}

(* The group_name of the earliest-created matching rule, none without one *)
FirstMatchGroup(asset, rs) ==
    IF Matching(asset, rs) = {} THEN None
    ELSE Some(rs[MinOf(Matching(asset, rs))].group_name)

(* The asset fails (evaluates to False on) a condition of each rule of rs *)
FailsEveryRule(asset, rs) ==
    \A i \in 1..Len(rs) : \E k \in 1..Len(rs[i].conditions) :
        _evaluate_condition(asset, rs[i].conditions[k]) = CondFalse

(* v occurs in s: some slice of s is v *)
Occurs(v, s) == \E i \in 1..(Len(s) + 1), j \in 0..Len(s) : SubSeq(s, i, j) = v

HasTag(asset, k) == \E i \in 1..Len(asset.tags) : asset.tags[i].key = k
HasTagValue(asset, k, v) ==
    \E i \in 1..Len(asset.tags) : asset.tags[i].key = k /\ asset.tags[i].value = v

(* The matching table of the specification, row by row, for a condition     *)
(* whose needed values are present                                          *)
MatchingTable(asset, c) ==
    CASE c.field = "type" /\ c.operator = EQUALS -> \E v \in c.value : asset.type = v
      [] c.field = "type" /\ c.operator = CONTAINS -> \E v \in c.value : Occurs(v, asset.type)
      [] c.field = "name" /\ c.operator = EQUALS -> \E v \in c.value : asset.name = v
      [] c.field = "name" /\ c.operator = CONTAINS -> \E v \in c.value : Occurs(v, asset.name)
      [] c.field = "tag" /\ c.operator = EXISTS -> \E k \in c.tag_key : HasTag(asset, k)
      [] c.field = "tag" /\ c.operator = EQUALS ->
            \E k \in c.tag_key, v \in c.tag_value : HasTagValue(asset, k, v)
      [] OTHER -> FALSE

(* The values the condition's row of the table reads are present *)
NeededPresent(c) ==
    /\ c.field \in {"type", "name"} /\ c.operator \in {EQUALS, CONTAINS}
            => c.value # None
    /\ c.field = "tag" /\ c.operator \in {EXISTS, EQUALS} => c.tag_key # None
    /\ c.field = "tag" /\ c.operator = EQUALS => c.tag_value # None

-----------------------------------------------------------------------------
(* C1: after completed operations every stored asset's group_name equals    *)
(* the first-match resolution of that asset against the current rules, none *)
(* when no rule matches.                                                    *)
C1_GroupsConsistent ==
    last.res # "raise" =>
        \A i \in 1..Len(assets) :
            /\ ~_evaluate_rules(assets[i], rules).raised
            /\ assets[i].group_name = FirstMatchGroup(assets[i], rules)

(* C2: the asset create_asset returns and stores carries the group_name of  *)
(* the first matching rule of the current rule set, none if no rule matches. *)
C2_CreateStoresFirstMatch ==
    last.op = "create_asset" /\ last.res = "ok" =>
        assets[last.id].group_name = FirstMatchGroup(assets[last.id], rules)

(* C3: on return from a create_rule whose rule an ungrouped asset matches   *)
(* (no earlier rule matches it), the stored asset carries that rule's       *)
(* group_name.                                                              *)
C3_RuleCreationGroupsAsset ==
    last.op = "create_rule" /\ last.res = "ok" =>
        \A i \in 1..Len(assets) :
            Matching(assets[i], rules) = {last.id} =>
                assets[i].group_name = Some(rules[last.id].group_name)

(* C4: update_rule on an id that is present stores the merged rule and      *)
(* returns it.                                                              *)
C4_UpdateRuleReturnsRule ==
    last.op = "update_rule" /\ last.id \in 1..Len(rules) => last.res = "ok"

(* C5: _evaluate_condition returns a boolean for every asset and condition  *)
(* and never raises; with its needed value absent it returns False.         *)
C5_ConditionTotal ==
    last.op = "_evaluate_condition" =>
        /\ last.res \in {CondTrue, CondFalse}
        /\ ~NeededPresent(last.condition) => last.res = CondFalse

(* C6: for every asset and every condition whose needed values are present, *)
(* _evaluate_condition equals the matching table; every combination of      *)
(* field and operator outside the six rows is False.                        *)
C6_ConditionMatchesTable ==
    last.op = "_evaluate_condition" /\ NeededPresent(last.condition) =>
        last.res = FromBool(MatchingTable(last.asset, last.condition))

(* A tag/equals condition, key and value present, evaluated to True on an   *)
(* asset of two tags                                                        *)
C6_Witness ==
    /\ last.op = "_evaluate_condition"
    /\ NeededPresent(last.condition)
    /\ last.condition.field = "tag"
    /\ last.condition.operator = EQUALS
    /\ Len(last.asset.tags) = 2
    /\ last.res = CondTrue

(* C7: when two rules match an asset, resolution returns the group_name of  *)
(* the one created first; a later-created matching rule never takes         *)
(* precedence.                                                              *)
C7_FirstMatchWins ==
    last.op = "_evaluate_rules" =>
        \A i \in Matching(last.asset, rules), j \in Matching(last.asset, rules) :
            i < j =>
                /\ ~last.raised
                /\ last.group = FirstMatchGroup(last.asset, rules)

(* C8: a rule matches iff all its conditions match: an asset that fails a   *)
(* condition of every rule is created with group_name none, one that        *)
(* satisfies all conditions of a rule is created with the group_name of     *)
(* the (first such) rule.                                                   *)
C8_AllConditionsMustMatch ==
    last.op = "create_asset" /\ last.res = "ok" =>
        LET a == assets[last.id]
        IN  /\ FailsEveryRule(a, rules) => a.group_name = None
            /\ \A i \in 1..Len(rules) :
                   i = MinOf(Matching(a, rules) \cup {i}) /\ i \in Matching(a, rules)
                        => a.group_name = Some(rules[i].group_name)

(* C9: update_asset on a present id re-runs resolution and overwrites the   *)
(* stored group_name with the fresh result, whatever it was before.         *)
C9_UpdateOverwritesGroup ==
    last.op = "update_asset" /\ last.id \in 1..Len(assets) =>
        /\ last.res = "ok"
        /\ assets[last.id].group_name = FirstMatchGroup(assets[last.id], rules)

(* C10: update_asset and update_rule on an id absent from their mapping     *)
(* return the not-found result and leave both mappings as they were.        *)
C10_NotFoundChangesNothing ==
    [][/\ last'.op = "update_asset" /\ last'.id \notin 1..Len(assets)
            => last'.res = "none" /\ assets' = assets /\ rules' = rules
       /\ last'.op = "update_rule" /\ last'.id \notin 1..Len(rules)
            => last'.res = "none" /\ assets' = assets /\ rules' = rules]_vars

(* update_asset has answered not-found while the store holds a rule and an  *)
(* asset whose updated_at was refreshed                                     *)
C10_Witness ==
    /\ last.op = "update_asset"
    /\ last.res = "none"
    /\ Len(rules) > 0
    /\ \E i \in 1..Len(assets) : assets[i].updated_at > assets[i].created_at

(* C11: across every create_rule / update_rule step, each asset that        *)
(* already carries a group assignment keeps its group_name and its          *)
(* updated_at: the reprocessing pass re-evaluates only ungrouped assets.    *)
C11_GroupedAssetsUntouched ==
    [][last'.op \in {"create_rule", "update_rule"} =>
          \A i \in 1..Len(assets) :
              assets[i].group_name # None =>
                  /\ Len(assets') >= i
                  /\ assets'[i].group_name = assets[i].group_name
                  /\ assets'[i].updated_at = assets[i].updated_at]_vars

(* create_rule has returned at an instant after the one at which an asset   *)
(* of the store was grouped, and its pass has grouped another asset under   *)
(* the new rule, whose group_name no other rule has                         *)
C11_Witness ==
    /\ last.op = "create_rule"
    /\ last.res = "ok"
    /\ \A k \in 1..Len(rules) :
            k # last.id => rules[k].group_name # rules[last.id].group_name
    /\ \E i \in 1..Len(assets), j \in 1..Len(assets) :
            /\ assets[i].group_name # None
            /\ assets[i].updated_at < rules[last.id].created_at
            /\ assets[j].group_name = Some(rules[last.id].group_name)
            /\ assets[j].updated_at > assets[j].created_at
            /\ assets[j].updated_at >= rules[last.id].created_at

(* The asset mapping after the two calls of last made one after the other   *)
(* on the store last.init: the asset call first, or create_rule first       *)
SerialAssetFirst ==
    LET rs == <<NewRule(last.rule, 1, 0)>>
        as == StoredAsset(last.call, last.init,
                          EvaluatedAsset(last.call, last.init, <<>>, 0).asset)
    IN  _process_existing_assets(as, rs, [i \in 1..Len(as) |-> 0]).assets

SerialRuleFirst ==
    LET rs == <<NewRule(last.rule, 1, 0)>>
        as == _process_existing_assets(
                  last.init, rs, [i \in 1..Len(last.init) |-> 0]).assets
    IN  StoredAsset(last.call, as, EvaluatedAsset(last.call, as, rs, 0).asset)

(* C12: for every interleaving of a create_rule call with a concurrent      *)
(* create_asset or update_asset call, both calls return and the final       *)
(* store equals that of one of the two serial orders; an asset matching     *)
(* the new rule never ends up stored with group_name none.                  *)
C12_Serializable ==
    /\ last.op = "concurrent"
    /\ last.rpc \in {"done", "raise"}
    /\ last.apc \in {"done", "raise"}
    =>  /\ last.rpc = "done"
        /\ last.apc = "done"
        /\ assets \in {SerialAssetFirst, SerialRuleFirst}
        /\ \A i \in 1..Len(assets) :
                Matching(assets[i], rules) # {} => assets[i].group_name # None

(* C13: no step changes the id or the created_at of a stored asset, and     *)
(* after every step each stored asset has the id it was created under and   *)
(* updated_at >= created_at (the clock being non-decreasing); update_asset  *)
(* and a group assignment of the reprocessing pass only move updated_at     *)
(* forward.                                                                 *)
C13_IdentityAndCreationKept ==
    [][/\ \A i \in 1..Len(assets) :
              /\ Len(assets') >= i
              /\ assets'[i].id = assets[i].id
              /\ assets'[i].created_at = assets[i].created_at
              /\ assets'[i].updated_at >= assets[i].updated_at
       /\ \A i \in 1..Len(assets') :
              /\ assets'[i].id = i
              /\ assets'[i].updated_at >= assets'[i].created_at]_vars

(* create_rule has returned and its pass has refreshed the updated_at of    *)
(* the asset it grouped, while an ungrouped asset of the store has an       *)
(* updated_at refreshed by update_asset                                     *)
C13_Witness ==
    /\ last.op = "create_rule"
    /\ last.res = "ok"
    /\ \E i \in 1..Len(assets), j \in 1..Len(assets) :
            /\ assets[i].group_name = Some(rules[last.id].group_name)
            /\ assets[i].updated_at = rules[last.id].created_at
            /\ assets[i].updated_at > assets[i].created_at
            /\ assets[j].group_name = None
            /\ assets[j].updated_at > assets[j].created_at
            /\ assets[j].updated_at < assets[i].updated_at

(* C14: every step of list_assets, delete_asset, get_rule, list_rules or    *)
(* delete_rule ends in the not-implemented signal, never a normal result,   *)
(* and leaves the asset and rule mappings unchanged.                        *)
C14_UnimplementedSignals ==
    [][last'.op \in {"list_assets", "delete_asset", "get_rule", "list_rules",
                     "delete_rule"}
          => /\ last'.res = "not_implemented"
             /\ assets' = assets
             /\ rules' = rules]_vars

(* delete_asset was called on the id of a stored, grouped asset *)
C14_Witness ==
    /\ last.op = "delete_asset"
    /\ last.res = "not_implemented"
    /\ last.id \in 1..Len(assets)
    /\ assets[last.id].group_name # None
    /\ Len(rules) > 0

(* C15: a rule with an empty condition list matches every asset: while the  *)
(* first rule in creation order is such a rule, resolution of every stored  *)
(* asset yields its group_name and every stored asset, created or updated   *)
(* after it or reached by its reprocessing pass, carries that group_name.   *)
C15_EmptyRuleMatchesAll ==
    Len(rules) > 0 /\ rules[1].conditions = <<>> =>
        \A i \in 1..Len(assets) :
            /\ _evaluate_rules(assets[i], rules) =
                    [raised |-> FALSE, group |-> Some(rules[1].group_name)]
            /\ assets[i].group_name = Some(rules[1].group_name)

(* C16: the reprocessing pass is idempotent: run a second time right after  *)
(* the pass of create_rule, at whatever later instants, it changes no       *)
(* asset's group_name and no asset's updated_at.                            *)
C16_PassIdempotent ==
    last.op = "create_rule" =>
        \A at \in Instants(Latest, MaxClock) :
            _process_existing_assets(assets, rules, at).assets = assets

(* create_rule has returned before the last instant of the clock; its pass  *)
(* grouped one asset and left another, which it evaluated, ungrouped        *)
C16_Witness ==
    /\ last.op = "create_rule"
    /\ last.res = "ok"
    /\ Latest < MaxClock
    /\ Len(rules) = 1
    /\ \E i \in 1..Len(assets), j \in 1..Len(assets) :
            /\ assets[i].group_name = Some(rules[1].group_name)
            /\ assets[j].group_name = None

(* C17: an update_asset that leaves name, type and tags of a grouped asset  *)
(* as they are, whatever it does to region, owner_id and cloud_account,     *)
(* does not change the asset's group_name, whichever rules match the asset  *)
(* at the time of the update.                                               *)
C17_UnreadFieldKeepsGroup ==
    [][LET id == last'.id
       IN  /\ last'.op = "update_asset"
           /\ id \in 1..Len(assets)
           /\ assets[id].group_name # None
           /\ assets'[id].name = assets[id].name
           /\ assets'[id].type = assets[id].type
           /\ assets'[id].tags = assets[id].tags
           => assets'[id].group_name = assets[id].group_name]_vars

(* update_asset has returned on an asset that is now in region r2, where no *)
(* asset is created, and carries the group_name of the first rule while the *)
(* second rule, of another group_name, matches it too                       *)
C17_Witness ==
    /\ last.op = "update_asset"
    /\ last.res = "ok"
    /\ last.id \in 1..Len(assets)
    /\ Len(rules) = 2
    /\ rules[1].group_name # rules[2].group_name
    /\ LET a == assets[last.id]
       IN  /\ a.region = "r2"
           /\ Matching(a, rules) = {1, 2}
           /\ a.group_name = Some(rules[1].group_name)

(* C18: a group_name sent in the payload of create_asset or update_asset    *)
(* never reaches the store: the group_name stored by either operation is    *)
(* the result of rule resolution on the stored record or none, and no       *)
(* stored asset carries a group_name that is not the one of a rule.         *)
C18_PayloadGroupIgnored ==
    /\ \A i \in 1..Len(assets) :
            assets[i].group_name \in
                {None} \cup {Some(rules[k].group_name) : k \in 1..Len(rules)}
    /\ last.op \in {"create_asset", "update_asset"} /\ last.res = "ok"
            => assets[last.id].group_name \in
                {None, _evaluate_rules(assets[last.id], rules).group}

(* update_asset has returned on an asset that only the second rule matches  *)
(* and stored that rule's group_name, while the other asset of the store,   *)
(* which no rule matches, has none                                          *)
C18_Witness ==
    /\ last.op = "update_asset"
    /\ last.res = "ok"
    /\ Len(rules) = 2
    /\ Len(assets) = 2
    /\ Matching(assets[last.id], rules) = {2}
    /\ assets[last.id].group_name = Some(rules[2].group_name)
    /\ \E j \in 1..2 : Matching(assets[j], rules) = {} /\ assets[j].group_name = None

(* C19: create_asset and update_asset agree on the derived group: the       *)
(* group_name create_asset has stored equals the one update_asset stores    *)
(* for an asset of the same field values under the same rules, rules with   *)
(* the empty group_name included.                                           *)
C19_CreateUpdateAgree ==
    last.op = "create_asset" /\ last.res = "ok" =>
        LET a == assets[last.id]
            call == [op |-> "update_asset", id |-> last.id, asset |-> a]
            u == EvaluatedAsset(call, assets, rules, a.updated_at)
        IN  /\ ~u.raised
            /\ u.asset.group_name = a.group_name

(* C20: a failed rule mutation is atomic: a create_rule or update_rule step *)
(* that ends in an exception leaves the rule mapping and every asset's      *)
(* group_name and updated_at as they were before the call.                  *)
C20_FailedRuleMutationAtomic ==
    [][last'.op \in {"create_rule", "update_rule"} /\ last'.res = "raise"
          => /\ rules' = rules
             /\ Len(assets') = Len(assets)
             /\ \A i \in 1..Len(assets) :
                    /\ assets'[i].group_name = assets[i].group_name
                    /\ assets'[i].updated_at = assets[i].updated_at]_vars

(* C21: create_asset adds exactly one record, under a fresh id, and         *)
(* update_asset replaces the record under the given id and no other; in     *)
(* both every other stored asset and the whole rule mapping stay as they    *)
(* were, and get_asset changes nothing.                                     *)
C21_AssetMutationFrame ==
    [][/\ last'.op = "create_asset" =>
              /\ Len(assets') = Len(assets) + 1
              /\ last'.id = Len(assets')
              /\ assets'[last'.id].id = last'.id
              /\ \A i \in 1..Len(assets) : assets'[i] = assets[i]
              /\ rules' = rules
       /\ last'.op = "update_asset" /\ last'.id \in 1..Len(assets) =>
              /\ Len(assets') = Len(assets)
              /\ assets'[last'.id].id = last'.id
              /\ \A i \in 1..Len(assets) : i # last'.id => assets'[i] = assets[i]
              /\ rules' = rules
       /\ last'.op = "get_asset" => assets' = assets /\ rules' = rules]_vars

====
